---- MODULE Spec2Model ----
(***************************************************************************)
(* Model of the gpt command-line partition-table editor                    *)
(* (system/uapp/gpt/gpt.c).  One invocation of the program is a walk of    *)
(* pc from "main" to "exit" (or "crashed"); the device's partition table   *)
(* (disk) persists from one invocation to the next.  The GPT codec library *)
(* (gpt_device_init, gpt_device_sync, gpt_partition_add,                   *)
(* gpt_partition_remove, gpt_device_release) lies outside these sources    *)
(* and is modelled from its interface contract.                            *)
(***************************************************************************)
EXTENDS Integers, Sequences, FiniteSets

\* ------------------------------------------------------------------ bounds
\* capacity of the slot array (PARTITIONS_COUNT of <gpt/gpt.h>), scaled down
PARTITIONS_COUNT == 2
\* number of program invocations explored on one device
MaxRuns == 5
\* number of distinct unique identifiers mx_cprng_draw can produce
NumGuids == 2
\* number of blocks of the device
DevBlocks == 2
\* largest block count an add is given
MaxAddBlocks == 2
\* number of empty reads of the input stream that are counted
MaxPolls == 1
\* code units of an entry's name field (36 in <gpt/gpt.h>), scaled down
NameUnits == 2

\* ------------------------------------------------------- program constants
\* the confirmation key: newline
NEWLINE == 10
\* bytes per block reported by a healthy device
BLOCKSIZE == 2
\* the descriptor open returns
DESC == 3
\* the value of a descriptor variable nothing was stored in
UNSET == 0 - 1
\* wait status of a process killed by a fault
SIGNALLED == 139

\* ------------------------------------------------------------ value spaces
NULL == [null |-> TRUE]
Slots == 0 .. (PARTITIONS_COUNT - 1)
Guids == 1 .. NumGuids
\* partition names a user can type, as character codes
Names == {<<97>>}
\* slot indexes a user can type: one below and two at or above the range
SlotArgs == (0 - 2) .. (PARTITIONS_COUNT + 1)
\* bytes other than newline a user can type
OtherKeys == {13, 121}
\* type[16] after memset(type, 0xff, 16)
WildcardType == "ff"

VARIABLES
    disk,      \* the table stored on the device: [valid, slots]
    runs,      \* invocations started so far
    pc,        \* position of the current invocation
    op,        \* subcommand of the current invocation
    warn,      \* the warn argument init was called with
    arg,       \* parsed operands: [n, offset, blocks, name]
    c,         \* value returned by cgetc
    polls,     \* reads that returned 0 bytes, modulo MaxPolls + 1
    fdOpen,    \* TRUE while the descriptor returned by open is not closed
    blocksize, \* init's local blocksize
    blocks,    \* init's local blocks
    gpt,       \* the table handle (NULL when there is none)
    loaded,    \* the table handle as gpt_device_init returned it
    p,         \* remove_partition's local p
    rc,        \* return code of the last codec add/remove
    trace,     \* device and codec calls of the current invocation, in order
    indexed,   \* values gpt->partitions[] was indexed with in remove_partition
    out,       \* lines printed by the current invocation
    rendered,  \* partition lines printed by dump, in order
    total,     \* the number printed in dump's "Total:" line (-1: not printed)
    argv,      \* the command line: [cmd, argc]
    stdin,     \* what the input stream holds when the prompt is read
    rrc,       \* result of the last re-read ioctl (ignored by commit)
    fd,        \* the operation's local fd, set through init's out_fd
    passed,    \* descriptor values the operation passed to commit and close
    staleRead, \* p was read after gpt_partition_remove took its entry out
    prev       \* the previous invocation, when it committed an add or remove

vars == <<disk, runs, pc, op, warn, arg, c, polls, fdOpen, blocksize, blocks,
          gpt, loaded, p, rc, trace, indexed, out, rendered, total, argv,
          stdin, rrc, fd, passed, staleRead, prev>>

\* ------------------------------------------------------------ small helpers
Count(s, e) == Cardinality({k \in 1 .. Len(s) : s[k] = e})
Has(s, e) == \E k \in 1 .. Len(s) : s[k] = e
First(s, e) == CHOOSE k \in 1 .. Len(s) : s[k] = e /\ \A j \in 1 .. (k - 1) : s[j] # e
EmptySlots == [i \in Slots |-> NULL]
NoArg == [n |-> 0, offset |-> 0, blocks |-> 0, name |-> <<>>]
NoPrev == [op |-> "none"]

\* ------------------------------------------------------- the codec library
\* gpt_device_init: an unreadable table gives a handle with valid = false and
\* no partitions; a readable one is loaded slot by slot
gpt_device_init(d, nblocks) ==
    [valid |-> d.valid,
     partitions |-> IF d.valid THEN d.slots ELSE EmptySlots,
     blocks |-> nblocks]

\* gpt_device_sync: serialises the in-memory table; the device then holds a
\* valid table with these slots
SyncedDisk(g) == [valid |-> TRUE, slots |-> g.partitions]
SyncedTable(g) == [g EXCEPT !.valid = TRUE]

Overlaps(e, first, last) == e # NULL /\ first <= e.last /\ e.first <= last

\* gpt_partition_add: 0 when the entry fits (range inside the device, no
\* overlap, identifier not in use, a free slot), non-zero otherwise
AddFits(g, guid, offset, nblocks) ==
    /\ g.valid
    /\ nblocks > 0
    /\ offset + nblocks <= g.blocks
    /\ \A i \in Slots : ~Overlaps(g.partitions[i], offset, offset + nblocks - 1)
    /\ \A i \in Slots : g.partitions[i] # NULL => g.partitions[i].guid # guid
    /\ \E i \in Slots : g.partitions[i] = NULL

FreeSlot(g) == CHOOSE i \in Slots :
    g.partitions[i] = NULL /\ \A j \in Slots : j < i => g.partitions[j] # NULL

\* the name field: one 16-bit unit per character, truncated and zero-padded
EncodeName(name) ==
    [k \in 1 .. NameUnits |-> IF k <= Len(name) THEN name[k] ELSE 0]

NewEntry(name, guid, offset, nblocks) ==
    [name |-> EncodeName(name), type |-> WildcardType, guid |-> guid,
     first |-> offset, last |-> offset + nblocks - 1]

gpt_partition_add(g, name, guid, offset, nblocks) ==
    IF AddFits(g, guid, offset, nblocks)
    THEN [rc |-> 0,
          gpt |-> [g EXCEPT !.partitions[FreeSlot(g)] =
                                NewEntry(name, guid, offset, nblocks)]]
    ELSE [rc |-> 0 - 1, gpt |-> g]

\* gpt_partition_remove: identity-keyed; the slot holding the identifier
\* becomes empty, the other slots keep their index and data
GuidFound(g, guid) == \E i \in Slots : g.partitions[i] # NULL /\ g.partitions[i].guid = guid

gpt_partition_remove(g, guid) ==
    IF GuidFound(g, guid)
    THEN [rc |-> 0,
          gpt |-> [g EXCEPT !.partitions =
                      [i \in Slots |->
                          IF g.partitions[i] # NULL /\ g.partitions[i].guid = guid
                          THEN NULL ELSE g.partitions[i]]]]
    ELSE [rc |-> 0 - 1, gpt |-> g]

\* ------------------------------------------------------------------- Init
Init ==
    /\ disk = [valid |-> FALSE, slots |-> EmptySlots]
    /\ runs = 0
    /\ pc = "main"
    /\ op = "none"
    /\ warn = FALSE
    /\ arg = NoArg
    /\ c = 0
    /\ polls = 0
    /\ fdOpen = FALSE
    /\ blocksize = 0
    /\ blocks = 0
    /\ gpt = NULL
    /\ loaded = NULL
    /\ p = NULL
    /\ rc = 0
    /\ trace = <<>>
    /\ indexed = {}
    /\ out = <<>>
    /\ rendered = <<>>
    /\ total = 0 - 1
    /\ argv = [cmd |-> "", argc |-> 1]
    /\ stdin = "none"
    /\ rrc = 0
    /\ fd = UNSET
    /\ passed = {}
    /\ staleRead = FALSE
    /\ prev = NoPrev

\* ------------------------------------------------------------------- main
\* what the next invocation finds done: an add or remove that returned after
\* its codec call gave 0, with the slots it had loaded and the entry it named
Summary ==
    IF /\ pc = "exit"
       /\ op \in {"add", "remove"}
       /\ rc = 0
       /\ Has(trace, "gpt_partition_add") \/ Has(trace, "gpt_partition_remove")
    THEN [op |-> op, arg |-> arg, before |-> loaded.partitions, p |-> p]
    ELSE NoPrev

\* the state every invocation starts from; the device keeps its table
Fresh ==
    /\ runs' = runs + 1
    /\ c' = 0
    /\ polls' = 0
    /\ fdOpen' = FALSE
    /\ blocksize' = 0
    /\ blocks' = 0
    /\ gpt' = NULL
    /\ loaded' = NULL
    /\ p' = NULL
    /\ rc' = 0
    /\ trace' = <<>>
    /\ indexed' = {}
    /\ rendered' = <<>>
    /\ total' = 0 - 1
    /\ stdin' = "none"
    /\ rrc' = 0
    /\ fd' = UNSET
    /\ passed' = {}
    /\ staleRead' = FALSE
    /\ prev' = Summary
    /\ UNCHANGED disk

Startable == pc \in {"main", "exit", "crashed"} /\ runs < MaxRuns

\* every operation asking for confirmation
WarnAlways(o) == o = o

\* warn argument each operation passes to init
Warn(o) == o \in {"add", "remove"}

\* subcommands a user can type; "frob" is not one the program knows
Cmds == {"dump", "add", "remove", "frob"}

\* the smallest argc with which a subcommand runs (on the default device)
MinArgc(cmd) == IF cmd = "add" THEN 5 ELSE IF cmd = "remove" THEN 3 ELSE 2

\* command lines: the bare program name, and each subcommand with every
\* number of operands up to the ones it needs
Argvs ==
    {[cmd |-> "", argc |-> 1]} \cup
    UNION {{[cmd |-> x, argc |-> n] : n \in 2 .. MinArgc(x)} : x \in Cmds}

\* the branch main takes (lines 180-193)
Dispatch(a) ==
    IF a.argc = 1 THEN "usage"
    ELSE IF a.cmd = "dump" THEN "dump"
    ELSE IF a.cmd = "add" THEN (IF a.argc < 5 THEN "usage" ELSE "add")
    ELSE IF a.cmd = "remove" THEN (IF a.argc < 3 THEN "usage" ELSE "remove")
    ELSE "usage"

\* argc == 1, an unknown subcommand, add with argc < 5, remove with argc < 3
main_usage ==
    /\ Startable
    /\ Fresh
    /\ \E a \in Argvs : Dispatch(a) = "usage" /\ argv' = a
    /\ op' = "usage"
    /\ warn' = FALSE
    /\ arg' = NoArg
    /\ out' = <<"usage:">>
    /\ pc' = "exit"

main_dump ==
    /\ Startable
    /\ Fresh
    /\ \E a \in Argvs : Dispatch(a) = "dump" /\ argv' = a
    /\ op' = "dump"
    /\ warn' = Warn("dump")
    /\ arg' = NoArg
    /\ out' = <<>>
    /\ pc' = "init"

main_add ==
    /\ Startable
    /\ Fresh
    /\ \E a \in Argvs : Dispatch(a) = "add" /\ argv' = a
    /\ \E offset \in 0 .. DevBlocks, nblocks \in 0 .. MaxAddBlocks, name \in Names :
          arg' = [n |-> 0, offset |-> offset, blocks |-> nblocks, name |-> name]
    /\ op' = "add"
    /\ warn' = Warn("add")
    /\ out' = <<>>
    /\ pc' = "init"

main_remove ==
    /\ Startable
    /\ Fresh
    /\ \E a \in Argvs : Dispatch(a) = "remove" /\ argv' = a
    /\ \E n \in SlotArgs :
          arg' = [n |-> n, offset |-> 0, blocks |-> 0, name |-> <<>>]
    /\ op' = "remove"
    /\ warn' = Warn("remove")
    /\ out' = <<>>
    /\ pc' = "init"

\* ------------------------------------------------------------------ cgetc
\* read(0, &ch, 1) returned 1: the byte is the result
cgetc_byte ==
    /\ pc = "cgetc"
    /\ stdin = "byte"
    /\ \E ch \in {NEWLINE} \cup OtherKeys : c' = ch
    /\ polls' = 0
    /\ pc' = "confirm"
    /\ UNCHANGED <<disk, runs, op, warn, arg, fdOpen, blocksize, blocks, gpt,
                   loaded, p, rc, trace, indexed, out, rendered, total>>
    /\ UNCHANGED <<argv, stdin, rrc, fd, passed, staleRead, prev>>

\* read returned r < 0: r is the result
cgetc_error ==
    /\ pc = "cgetc"
    /\ stdin = "error"
    /\ c' = 0 - 1
    /\ polls' = 0
    /\ pc' = "confirm"
    /\ UNCHANGED <<disk, runs, op, warn, arg, fdOpen, blocksize, blocks, gpt,
                   loaded, p, rc, trace, indexed, out, rendered, total>>
    /\ UNCHANGED <<argv, stdin, rrc, fd, passed, staleRead, prev>>

\* read returned 0 (end of input): wait and read again, with nothing changed
\* but the count of empty reads, kept modulo MaxPolls + 1
cgetc_retry ==
    /\ pc = "cgetc"
    /\ stdin = "eof"
    /\ polls' = (polls + 1) % (MaxPolls + 1)
    /\ UNCHANGED <<disk, runs, pc, op, warn, arg, c, fdOpen, blocksize, blocks,
                   gpt, loaded, p, rc, trace, indexed, out, rendered, total>>
    /\ UNCHANGED <<argv, stdin, rrc, fd, passed, staleRead, prev>>

\* ------------------------------------------------------------------- init
\* where the operation continues once init has returned a table handle
Body(o) == o

\* if (warn) { printf(...); c = cgetc(); ... }
init_warn ==
    /\ pc = "init"
    /\ IF warn
       THEN /\ out' = Append(out, "Using dev... <enter> to continue")
            /\ trace' = Append(trace, "prompt")
            /\ stdin' \in {"byte", "error", "eof"}
            /\ pc' = "cgetc"
       ELSE /\ pc' = "open"
            /\ UNCHANGED <<out, trace, stdin>>
    /\ UNCHANGED <<disk, runs, op, warn, arg, c, polls, fdOpen, blocksize,
                   blocks, gpt, loaded, p, rc, indexed, rendered, total>>
    /\ UNCHANGED <<argv, rrc, fd, passed, staleRead, prev>>

\* a confirmation test that lets every key through
ConfirmedAnyKey(ch) == ch = ch

\* the test of line 59, as the condition to go on
Confirmed(ch) == ch = NEWLINE

\* if (c != 10) return NULL;  the caller returns at once
init_confirm ==
    /\ pc = "confirm"
    /\ pc' = IF Confirmed(c) THEN "open" ELSE "exit"
    /\ UNCHANGED <<disk, runs, op, warn, arg, c, polls, fdOpen, blocksize,
                   blocks, gpt, loaded, p, rc, trace, indexed, out, rendered,
                   total>>
    /\ UNCHANGED <<argv, stdin, rrc, fd, passed, staleRead, prev>>

\* fd = open(dev, O_RDWR)
init_open ==
    /\ pc = "open"
    /\ \/ /\ fdOpen' = TRUE
          /\ trace' = Append(trace, "open")
          /\ pc' = "blocksize"
          /\ UNCHANGED out
       \/ /\ out' = Append(out, "error opening dev")
          /\ trace' = Append(trace, "open_failed")
          /\ pc' = "exit"
          /\ UNCHANGED fdOpen
    /\ UNCHANGED <<disk, runs, op, warn, arg, c, polls, blocksize, blocks, gpt,
                   loaded, p, rc, indexed, rendered, total>>
    /\ UNCHANGED <<argv, stdin, rrc, fd, passed, staleRead, prev>>

\* a failure path that forgets the descriptor
InitFailLeak(ev, msg) ==
    /\ out' = Append(out, msg)
    /\ trace' = Append(trace, ev)
    /\ UNCHANGED fdOpen
    /\ pc' = "exit"

\* close(fd); return NULL;  of init's failure paths
InitFail(ev, msg) ==
    /\ out' = Append(out, msg)
    /\ trace' = trace \o <<ev, "close">>
    /\ fdOpen' = FALSE
    /\ pc' = "exit"

\* mxio_ioctl(fd, BLOCK_OP_GET_BLOCKSIZE, ...)
init_blocksize ==
    /\ pc = "blocksize"
    /\ \/ /\ InitFail("ioctl_blocksize", "error getting block size")
          /\ UNCHANGED blocksize
       \/ /\ \E bs \in {0, BLOCKSIZE} : blocksize' = bs
          /\ trace' = Append(trace, "ioctl_blocksize")
          /\ pc' = "size"
          /\ UNCHANGED <<out, fdOpen>>
    /\ UNCHANGED <<disk, runs, op, warn, arg, c, polls, blocks, gpt, loaded, p,
                   rc, indexed, rendered, total>>
    /\ UNCHANGED <<argv, stdin, rrc, fd, passed, staleRead, prev>>

\* mxio_ioctl(fd, BLOCK_OP_GET_SIZE, ...); blocks /= blocksize;
\* a division by zero traps or leaves 0, depending on the target
init_size ==
    /\ pc = "size"
    /\ \/ /\ InitFail("ioctl_size", "error getting device size")
          /\ UNCHANGED blocks
       \/ /\ blocksize # 0
          /\ \E size \in {0, DevBlocks * BLOCKSIZE} : blocks' = size \div blocksize
          /\ trace' = Append(trace, "ioctl_size")
          /\ out' = Append(out, "blocksize= blocks=")
          /\ pc' = "gpt_init"
          /\ UNCHANGED fdOpen
       \/ /\ blocksize = 0
          /\ trace' = Append(trace, "ioctl_size")
          /\ \/ /\ pc' = "crashed"
                /\ UNCHANGED <<blocks, out>>
             \/ /\ blocks' = 0
                /\ out' = Append(out, "blocksize= blocks=")
                /\ pc' = "gpt_init"
          /\ UNCHANGED fdOpen
    /\ UNCHANGED <<disk, runs, op, warn, arg, c, polls, blocksize, gpt, loaded,
                   p, rc, indexed, rendered, total>>
    /\ UNCHANGED <<argv, stdin, rrc, fd, passed, staleRead, prev>>

\* rc = gpt_device_init(fd, blocksize, blocks, &gpt); *out_fd = fd; return gpt;
\* the codec gives an error when it cannot read the device, as it cannot on a
\* device of no blocks
init_gpt ==
    /\ pc = "gpt_init"
    /\ \/ /\ InitFail("gpt_device_init", "error initializing test")
          /\ UNCHANGED <<gpt, loaded, fd>>
       \/ /\ blocks > 0
          /\ gpt' = gpt_device_init(disk, blocks)
          /\ loaded' = gpt'
          /\ fd' = DESC
          /\ trace' = Append(trace, "gpt_device_init")
          /\ pc' = Body(op)
          /\ UNCHANGED <<out, fdOpen>>
    /\ UNCHANGED <<disk, runs, op, warn, arg, c, polls, blocksize, blocks, p,
                   rc, indexed, rendered, total>>
    /\ UNCHANGED <<argv, stdin, rrc, passed, staleRead, prev>>

\* ----------------------------------------------------------------- commit
\* printf("commit\n"); gpt_device_sync(gpt); mxio_ioctl(fd, BLOCK_OP_RR_PART, ...)
\* a commit that writes the table and tells nobody
commitSilent(g, said) ==
    /\ out' = out \o said \o <<"commit">>
    /\ disk' = SyncedDisk(g)
    /\ gpt' = SyncedTable(g)
    /\ trace' = trace \o <<"gpt_device_sync">>
    /\ passed' = passed \cup {fd}
    /\ rrc' = 0

\* said: what the caller printed just before the call
commit(g, said) ==
    /\ out' = out \o said \o <<"commit">>
    /\ disk' = SyncedDisk(g)
    /\ gpt' = SyncedTable(g)
    /\ trace' = trace \o <<"gpt_device_sync", "ioctl_rr_part">>
    /\ passed' = passed \cup {fd}
    /\ rrc' \in {0, 0 - 1}

\* an operation that closes the device before it releases the table
CloseThenRelease ==
    /\ trace' = trace \o <<"close", "gpt_device_release">>
    /\ passed' = passed \cup {fd}
    /\ gpt' = NULL
    /\ fdOpen' = FALSE
    /\ pc' = "exit"

\* gpt_device_release(gpt); close(fd);  at the end of an operation
ReleaseAndClose ==
    /\ trace' = trace \o <<"gpt_device_release", "close">>
    /\ passed' = passed \cup {fd}
    /\ gpt' = NULL
    /\ fdOpen' = FALSE
    /\ pc' = "exit"

\* ------------------------------------------------------- utf16_to_cstring
\* c = src[i++] & 0x7f; if (!c) continue; *ptr++ = c;
RECURSIVE utf16_to_cstring(_, _)
utf16_to_cstring(src, len) ==
    IF len = 0 THEN <<>>
    ELSE LET head == utf16_to_cstring(src, len - 1)
             ch == src[len] % 128
         IN IF ch = 0 THEN head ELSE Append(head, ch)

\* -------------------------------------------------------- guid_to_cstring
\* the 16 bytes mx_cprng_draw gave identifier id: all different, so that
\* their order shows
GuidBytes(id) == [k \in 0 .. 15 |-> (16 * id + k) % 256]

HexDigits == <<"0", "1", "2", "3", "4", "5", "6", "7",
               "8", "9", "A", "B", "C", "D", "E", "F">>

\* %02X
Hex02(b) == <<HexDigits[(b \div 16) + 1], HexDigits[(b % 16) + 1]>>

\* a hyphen in an argument order
HYPHEN == 0 - 1

\* the text of the bytes of src taken in this order
RECURSIVE Format(_, _)
Format(src, order) ==
    IF order = <<>> THEN <<>>
    ELSE (IF Head(order) = HYPHEN THEN <<"-">> ELSE Hex02(src[Head(order)]))
         \o Format(src, Tail(order))

\* the arguments of the sprintf of line 50, in order
SprintfOrder ==
    <<3, 2, 1, 0, HYPHEN, 5, 4, HYPHEN, 7, 6, HYPHEN, 9, 8, HYPHEN,
      15, 14, 13, 12, 11, 10>>

guid_to_cstring(src) == Format(src, SprintfOrder)

\* -------------------------------------------------------- dump_partitions
\* the value of i when the loop of lines 120-125 ends: the first empty slot,
\* or PARTITIONS_COUNT when every slot is occupied
RECURSIVE LoopEnd(_, _)
LoopEnd(g, i) ==
    IF i < PARTITIONS_COUNT /\ g.partitions[i] # NULL THEN LoopEnd(g, i + 1) ELSE i

\* the line printed for slot i
PartitionLine(i, e) ==
    [i |-> i, name |-> utf16_to_cstring(e.name, NameUnits), first |-> e.first,
     last |-> e.last, blocks |-> e.last - e.first + 1, guid |-> e.guid,
     text |-> guid_to_cstring(GuidBytes(e.guid))]

\* if (!gpt->valid) { printf("No valid GPT found\n"); return; }
dump_invalid ==
    /\ pc = "dump"
    /\ ~gpt.valid
    /\ out' = Append(out, "No valid GPT found")
    /\ pc' = "exit"
    /\ UNCHANGED <<disk, runs, op, warn, arg, c, polls, fdOpen, blocksize,
                   blocks, gpt, loaded, p, rc, trace, indexed, rendered, total>>
    /\ UNCHANGED <<argv, stdin, rrc, fd, passed, staleRead, prev>>

\* the loop, the total, gpt_device_release and close
dump_valid ==
    /\ pc = "dump"
    /\ gpt.valid
    /\ out' = out \o <<"Partition table is valid", "Total: partitions">>
    /\ rendered' = [k \in 1 .. LoopEnd(gpt, 0) |->
                        PartitionLine(k - 1, gpt.partitions[k - 1])]
    /\ total' = LoopEnd(gpt, 0)
    /\ ReleaseAndClose
    /\ UNCHANGED <<disk, runs, op, warn, arg, c, polls, blocksize, blocks,
                   loaded, p, rc, indexed>>
    /\ UNCHANGED <<argv, stdin, rrc, fd, staleRead, prev>>

\* ---------------------------------------------------------- add_partition
\* an add that never writes the default header
NeedsHeaderNever(g) == g # g

\* the test of line 137
NeedsHeader(g) == ~g.valid

\* if (!gpt->valid) commit(gpt, fd);
add_bootstrap ==
    /\ pc = "add"
    /\ IF NeedsHeader(gpt)
       THEN commit(gpt, <<>>)
       ELSE UNCHANGED <<out, disk, gpt, trace, passed, rrc>>
    /\ pc' = "add_call"
    /\ UNCHANGED <<runs, op, warn, arg, c, polls, fdOpen, blocksize, blocks,
                   loaded, p, rc, indexed, rendered, total>>
    /\ UNCHANGED <<argv, stdin, fd, staleRead, prev>>

\* mx_cprng_draw(guid, 16); rc = gpt_partition_add(...)
add_call ==
    /\ pc = "add_call"
    /\ \E guid \in Guids :
          LET r == gpt_partition_add(gpt, arg.name, guid, arg.offset, arg.blocks)
          IN /\ rc' = r.rc
             /\ gpt' = r.gpt
    /\ trace' = Append(trace, "gpt_partition_add")
    /\ pc' = "add_rc"
    /\ UNCHANGED <<disk, runs, op, warn, arg, c, polls, fdOpen, blocksize,
                   blocks, loaded, p, indexed, out, rendered, total>>
    /\ UNCHANGED <<argv, stdin, rrc, fd, passed, staleRead, prev>>

\* an add that commits whatever the codec returned
AddSucceededAlways(r) == r = r

\* the test of line 146
AddSucceeded(r) == r = 0

\* if (rc == 0) { printf(...); commit(gpt, fd); }
add_commit ==
    /\ pc = "add_rc"
    /\ IF AddSucceeded(rc)
       THEN commit(gpt, <<"add partition: name= offset= blocks=">>)
       ELSE UNCHANGED <<out, disk, gpt, trace, passed, rrc>>
    /\ pc' = "add_end"
    /\ UNCHANGED <<runs, op, warn, arg, c, polls, fdOpen, blocksize, blocks,
                   loaded, p, rc, indexed, rendered, total>>
    /\ UNCHANGED <<argv, stdin, fd, staleRead, prev>>

\* gpt_device_release(gpt); close(fd);
add_end ==
    /\ pc = "add_end"
    /\ ReleaseAndClose
    /\ UNCHANGED <<disk, runs, op, warn, arg, c, polls, blocksize, blocks,
                   loaded, p, rc, indexed, out, rendered, total>>
    /\ UNCHANGED <<argv, stdin, rrc, fd, staleRead, prev>>

\* ------------------------------------------------------- remove_partition
\* a pointer read from outside the slot array
WILD == [wild |-> TRUE]

\* the test of line 160
OutOfRange(n) == n >= PARTITIONS_COUNT

\* if (n >= PARTITIONS_COUNT) return;
remove_range ==
    /\ pc = "remove"
    /\ pc' = IF OutOfRange(arg.n) THEN "exit" ELSE "remove_slot"
    /\ UNCHANGED <<disk, runs, op, warn, arg, c, polls, fdOpen, blocksize,
                   blocks, gpt, loaded, p, rc, trace, indexed, out, rendered,
                   total>>
    /\ UNCHANGED <<argv, stdin, rrc, fd, passed, staleRead, prev>>

\* a slot test that takes every slot as occupied
SlotEmptyNever(q) == q # q

\* the test of line 164
SlotEmpty(q) == q = NULL

\* a remove that resolves every index to the first slot
remove_slot_first ==
    /\ pc = "remove_slot"
    /\ indexed' = indexed \cup {0}
    /\ p' = gpt.partitions[0]
    /\ pc' = IF SlotEmpty(p') THEN "exit" ELSE "remove_call"
    /\ UNCHANGED <<disk, runs, op, warn, arg, c, polls, fdOpen, blocksize,
                   blocks, gpt, loaded, rc, trace, out, rendered, total>>
    /\ UNCHANGED <<argv, stdin, rrc, fd, passed, staleRead, prev>>

\* p = gpt->partitions[n]; if (!p) return;
\* for n < 0 the read is outside the array: it yields a null or a wild pointer
remove_slot ==
    /\ pc = "remove_slot"
    /\ indexed' = indexed \cup {arg.n}
    /\ IF arg.n \in Slots
       THEN p' = gpt.partitions[arg.n]
       ELSE p' \in {NULL, WILD}
    /\ pc' = IF SlotEmpty(p') THEN "exit" ELSE "remove_call"
    /\ UNCHANGED <<disk, runs, op, warn, arg, c, polls, fdOpen, blocksize,
                   blocks, gpt, loaded, rc, trace, out, rendered, total>>
    /\ UNCHANGED <<argv, stdin, rrc, fd, passed, staleRead, prev>>

\* rc = gpt_partition_remove(gpt, p->guid);
\* through a wild pointer the codec reads arbitrary bytes or faults
remove_call ==
    /\ pc = "remove_call"
    /\ trace' = Append(trace, "gpt_partition_remove")
    /\ \/ /\ \E guid \in (IF p = WILD THEN 0 .. NumGuids
                          ELSE IF p = NULL THEN {} ELSE {p.guid}) :
                LET r == gpt_partition_remove(gpt, guid)
                IN /\ rc' = r.rc
                   /\ gpt' = r.gpt
          /\ pc' = "remove_rc"
       \/ /\ p \in {WILD, NULL}
          /\ pc' = "crashed"
          /\ UNCHANGED <<rc, gpt>>
    /\ UNCHANGED <<disk, runs, op, warn, arg, c, polls, fdOpen, blocksize,
                   blocks, loaded, p, indexed, out, rendered, total>>
    /\ UNCHANGED <<argv, stdin, rrc, fd, passed, staleRead, prev>>

\* the test of line 168
RemoveSucceeded(r) == r = 0

\* if (rc == 0) { printf(..., utf16_to_cstring(name, p->name, 36)); commit(gpt, fd); }
\* the printf reads p->name after the codec took the entry out of the table
remove_commit ==
    /\ pc = "remove_rc"
    /\ IF RemoveSucceeded(rc)
       THEN /\ commit(gpt, <<"remove partition: n= name=">>)
            /\ staleRead' = TRUE
       ELSE UNCHANGED <<out, disk, gpt, trace, passed, rrc, staleRead>>
    /\ pc' = "remove_end"
    /\ UNCHANGED <<runs, op, warn, arg, c, polls, fdOpen, blocksize, blocks,
                   loaded, p, rc, indexed, rendered, total>>
    /\ UNCHANGED <<argv, stdin, fd, prev>>

\* gpt_device_release(gpt); close(fd);
remove_end ==
    /\ pc = "remove_end"
    /\ ReleaseAndClose
    /\ UNCHANGED <<disk, runs, op, warn, arg, c, polls, blocksize, blocks,
                   loaded, p, rc, indexed, out, rendered, total>>
    /\ UNCHANGED <<argv, stdin, rrc, fd, staleRead, prev>>

\* ------------------------------------------------------------- the exit
\* blocks /= blocksize was executed with blocksize = 0
DividedByZero ==
    /\ blocksize = 0
    /\ Has(trace, "ioctl_size")
    /\ ~Has(out, "error getting device size")

\* what the parent sees: main's return value, or the fault that ended it
ExitStatus ==
    IF pc = "exit" THEN 0 ELSE IF pc = "crashed" THEN SIGNALLED ELSE UNSET

\* --------------------------------------------------------- specification
Next ==
    \/ main_usage
    \/ main_dump
    \/ main_add
    \/ main_remove
    \/ cgetc_byte
    \/ cgetc_error
    \/ cgetc_retry
    \/ init_warn
    \/ init_confirm
    \/ init_open
    \/ init_blocksize
    \/ init_size
    \/ init_gpt
    \/ dump_invalid
    \/ dump_valid
    \/ add_bootstrap
    \/ add_call
    \/ add_commit
    \/ add_end
    \/ remove_range
    \/ remove_slot
    \/ remove_call
    \/ remove_commit
    \/ remove_end

Spec == Init /\ [][Next]_vars

\* the steps of a running invocation: everything but the start of the next one
Step ==
    \/ cgetc_byte
    \/ cgetc_error
    \/ cgetc_retry
    \/ init_warn
    \/ init_confirm
    \/ init_open
    \/ init_blocksize
    \/ init_size
    \/ init_gpt
    \/ dump_invalid
    \/ dump_valid
    \/ add_bootstrap
    \/ add_call
    \/ add_commit
    \/ add_end
    \/ remove_range
    \/ remove_slot
    \/ remove_call
    \/ remove_commit
    \/ remove_end

\* a started invocation keeps running: the process is single-threaded and
\* every call it makes returns
FairSpec == Spec /\ WF_vars(Step)

TypeOK ==
    /\ pc \in {"main", "init", "cgetc", "confirm", "open", "blocksize", "size",
               "gpt_init", "dump", "add", "add_call", "add_rc", "add_end",
               "remove", "remove_slot", "remove_call", "remove_rc",
               "remove_end", "exit", "crashed"}
    /\ runs \in 0 .. MaxRuns
    /\ fdOpen \in BOOLEAN

\* ------------------------------------------------------------ properties
Returned == pc = "exit"
Destructive == op \in {"add", "remove"}
\* cgetc has returned in this invocation
Answered == pc \notin {"main", "init", "cgetc"}
Synced == Has(trace, "gpt_device_sync")
Notified == Has(trace, "ioctl_rr_part")
\* no codec add/remove/sync call and no re-read notification so far
NoMutation ==
    /\ ~Has(trace, "gpt_partition_add")
    /\ ~Has(trace, "gpt_partition_remove")
    /\ ~Synced
    /\ ~Notified
\* no commit event after position k of the trace
NoCommitAfter(k) ==
    \A j \in (k + 1) .. Len(trace) : trace[j] \notin {"gpt_device_sync", "ioctl_rr_part"}

\* C1: in an add or remove whose confirmation read returned anything but
\* newline (a read error included) the device is never opened, no codec call
\* is made and no re-read notification is issued: the prompt is the only
\* thing the invocation did, and it ends at once.
C1_DeclinedTouchesNothing ==
    (Destructive /\ Answered /\ c # NEWLINE) =>
        /\ trace = <<"prompt">>
        /\ ~fdOpen
        /\ gpt = NULL
        /\ pc \in {"confirm", "exit"}

C1_Witness ==
    /\ Returned
    /\ op = "remove"
    /\ c = 0 - 1
    /\ trace = <<"prompt">>
    /\ disk.valid

\* C2: every invocation that opened the device has closed it exactly once
\* when the operation returns.
C2_ClosedExactlyOnce ==
    (Returned /\ Has(trace, "open")) => Count(trace, "close") = 1

\* C3: every invocation in which init returned a table handle has released
\* it exactly once when the operation returns.
C3_ReleasedExactlyOnce ==
    (Returned /\ loaded # NULL) => Count(trace, "gpt_device_release") = 1

\* C4: a remove whose slot index is outside [0, capacity) never indexes the
\* slot array with it, never calls the codec removal and never commits.
C4_OutsideRangeRejected ==
    (op = "remove" /\ arg.n \notin Slots) =>
        /\ indexed = {}
        /\ ~Has(trace, "gpt_partition_remove")
        /\ ~Synced
        /\ ~Notified

\* the slot a remove names is inside the array and was loaded empty
EmptySlotNamed ==
    /\ op = "remove"
    /\ loaded # NULL
    /\ arg.n \in Slots
    /\ loaded.partitions[arg.n] = NULL

\* C5: a remove of an in-range empty slot leaves the in-memory table as it
\* was loaded, calls neither the codec removal nor sync, issues no re-read
\* notification, and returns right after looking at the slot.
C5_EmptySlotNoOp ==
    EmptySlotNamed =>
        /\ gpt = loaded
        /\ NoMutation
        /\ pc \in {"remove", "remove_slot", "exit"}

C5_Witness ==
    /\ EmptySlotNamed
    /\ Returned
    /\ indexed = {arg.n}
    /\ loaded.valid
    /\ \E i \in Slots : loaded.partitions[i] # NULL

\* an add that was confirmed and loaded an invalid table
Bootstrapping == op = "add" /\ loaded # NULL /\ ~loaded.valid

\* C6: when a confirmed add loaded an invalid table, the table is committed
\* before the codec add is attempted: from the moment the add is about to be
\* called the device holds a valid table, and it still does when the
\* invocation ends, whether the codec add succeeded or failed.
C6_BootstrapCommitsFirst ==
    (Bootstrapping /\ pc \in {"add_call", "add_rc", "add_end", "exit"}) =>
        /\ disk.valid
        /\ Synced
        /\ Has(trace, "gpt_partition_add") =>
              First(trace, "gpt_device_sync") < First(trace, "gpt_partition_add")

C6_Witness ==
    /\ Bootstrapping
    /\ Returned
    /\ rc # 0
    /\ disk = [valid |-> TRUE, slots |-> EmptySlots]

\* the codec add of this invocation has returned non-zero
AddFailed == op = "add" /\ Has(trace, "gpt_partition_add") /\ rc # 0

\* C7 as stated: an add whose codec add returned non-zero contains no codec
\* sync and no re-read notification at all.
C7_FailedAddNeverCommits ==
    AddFailed => (~Synced /\ ~Notified)

\* C7 amended: an add whose codec add returned non-zero leaves the table as
\* it was before the codec add and commits nothing after it: the trace goes
\* from the codec add directly to release and close.  The invocation holds
\* no commit at all when the loaded table was valid; when it was invalid the
\* header commit made before the codec add is its only one.
C7_FailedAddCommitsNothingAfter ==
    AddFailed =>
        /\ NoCommitAfter(First(trace, "gpt_partition_add"))
        /\ loaded.valid => (~Synced /\ ~Notified)
        /\ Count(trace, "gpt_device_sync") <= 1
        /\ pc \in {"add_rc", "add_end"} =>
              gpt = (IF loaded.valid THEN loaded ELSE SyncedTable(loaded))
        /\ Returned =>
              /\ trace[Len(trace)] = "close"
              /\ trace[Len(trace) - 1] = "gpt_device_release"
              /\ trace[Len(trace) - 2] = "gpt_partition_add"

C7_Witness ==
    /\ AddFailed
    /\ Returned
    /\ loaded.valid
    /\ \E i \in Slots : loaded.partitions[i] # NULL
    /\ disk.slots = loaded.partitions

\* C8: a confirmed remove that loaded an invalid table never calls the
\* codec removal and never commits, whatever the slot index is.
C8_InvalidTableRemoveAborts ==
    (op = "remove" /\ loaded # NULL /\ ~loaded.valid) =>
        /\ ~Has(trace, "gpt_partition_remove")
        /\ ~Synced
        /\ ~Notified

\* C9: a dump asks for no confirmation, makes no codec add/remove/sync call
\* and issues no re-read notification; on an invalid table it prints that no
\* valid table was found and renders no partition.
C9_DumpNonDestructive ==
    op = "dump" =>
        /\ ~warn
        /\ ~Has(trace, "prompt")
        /\ NoMutation
        /\ (loaded # NULL /\ ~loaded.valid /\ Returned) =>
              /\ Has(out, "No valid GPT found")
              /\ ~Has(out, "Partition table is valid")
              /\ rendered = <<>>
              /\ total = 0 - 1

C9_Witness ==
    /\ op = "dump"
    /\ Returned
    /\ loaded # NULL
    /\ ~loaded.valid
    /\ Has(out, "No valid GPT found")

\* C10: a dump of a valid table renders every occupied slot of the slot
\* array, whatever the arrangement of occupied and empty slots, and the
\* total it prints is the number of partitions rendered.
C10_DumpRendersEveryOccupiedSlot ==
    (op = "dump" /\ Returned /\ loaded # NULL /\ loaded.valid) =>
        /\ \A i \in Slots : loaded.partitions[i] # NULL =>
              \E k \in 1 .. Len(rendered) :
                  /\ rendered[k].i = i
                  /\ rendered[k].guid = loaded.partitions[i].guid
        /\ total = Len(rendered)

\* the last two calls of the invocation are the release and the close
EndsReleasedAndClosed ==
    /\ Len(trace) >= 2
    /\ trace[Len(trace) - 1] = "gpt_device_release"
    /\ trace[Len(trace)] = "close"

\* C11: every commit is a codec sync followed at once by one re-read
\* notification (and no notification comes without its sync), both on the
\* descriptor init opened; the result of the notification is not looked at:
\* whether it failed or not the invocation prints no error, goes on to
\* release and close, and returns.
C11_CommitSyncsThenNotifies ==
    /\ \A k \in 1 .. Len(trace) :
          /\ trace[k] = "gpt_device_sync" =>
                (k < Len(trace) /\ trace[k + 1] = "ioctl_rr_part")
          /\ trace[k] = "ioctl_rr_part" =>
                (k > 1 /\ trace[k - 1] = "gpt_device_sync")
    /\ Count(trace, "gpt_device_sync") = Count(trace, "ioctl_rr_part")
    /\ Synced => (fdOpen \/ Returned) /\ passed = {DESC}
    /\ (Synced /\ Returned) =>
          /\ EndsReleasedAndClosed
          /\ \A k \in 1 .. Len(out) :
                out[k] \in {"Using dev... <enter> to continue",
                            "blocksize= blocks=", "commit",
                            "add partition: name= offset= blocks=",
                            "remove partition: n= name="}

C11_Witness ==
    /\ Returned
    /\ op = "remove"
    /\ Synced
    /\ rrc # 0
    /\ EndsReleasedAndClosed

\* init printed one of its three failure messages after the open
InitFailedAfterOpen ==
    \/ Has(out, "error getting block size")
    \/ Has(out, "error getting device size")
    \/ Has(out, "error initializing test")

\* C12: when the block-size query, the device-size query or the codec table
\* initialization fails after the open, init closes the descriptor (once)
\* and returns no table handle; the close is the last device or codec call
\* of the invocation and the operation returns at once.
C12_InitFailureClosesAndStops ==
    InitFailedAfterOpen =>
        /\ Returned
        /\ ~fdOpen
        /\ Count(trace, "close") = 1
        /\ trace[Len(trace)] = "close"
        /\ gpt = NULL
        /\ loaded = NULL
        /\ fd = UNSET
        /\ passed = {}
        /\ NoMutation
        /\ ~Has(trace, "gpt_device_release")
        /\ rendered = <<>>

C12_Witness ==
    /\ InitFailedAfterOpen
    /\ Returned
    /\ op = "add"
    /\ Has(out, "error getting device size")
    /\ trace = <<"prompt", "open", "ioctl_blocksize", "ioctl_size", "close">>

\* a dump that returned after loading the table the previous invocation, a
\* remove of an in-range slot whose codec removal gave 0, had committed
DumpAfterRemove ==
    /\ op = "dump"
    /\ Returned
    /\ loaded # NULL
    /\ prev.op = "remove"
    /\ prev.arg.n \in Slots

\* C13: in the dump that follows a successful remove(i) no line shows the
\* identifier read from slot i; slot i of the table is now empty and every
\* other slot holds the entry it held before the remove, so every line the
\* dump prints is the line of an entry that was there, at its index, with
\* its identifier and block range.
C13_RemoveIsIdentityKeyed ==
    DumpAfterRemove =>
        /\ loaded.valid
        /\ prev.before[prev.arg.n] = prev.p
        /\ \A k \in 1 .. Len(rendered) : rendered[k].guid # prev.p.guid
        /\ loaded.partitions[prev.arg.n] = NULL
        /\ \A i \in Slots \ {prev.arg.n} : loaded.partitions[i] = prev.before[i]
        /\ \A k \in 1 .. Len(rendered) :
              /\ rendered[k].i # prev.arg.n
              /\ rendered[k] = PartitionLine(rendered[k].i, prev.before[rendered[k].i])

C13_Witness ==
    /\ DumpAfterRemove
    /\ prev.arg.n = 1
    /\ prev.before[0] # NULL
    /\ Len(rendered) = 1
    /\ rendered[1].guid = prev.before[0].guid

\* a dump that returned after loading the table the previous invocation, an
\* add whose codec add gave 0, had committed
DumpAfterAdd ==
    /\ op = "dump"
    /\ Returned
    /\ loaded # NULL
    /\ prev.op = "add"

\* the lines a dump of these slots prints
LinesOf(slots) ==
    [k \in 1 .. LoopEnd([partitions |-> slots], 0) |-> PartitionLine(k - 1, slots[k - 1])]

\* C14: the dump that follows a successful add shows exactly one entry more
\* than a dump before the add showed, one of its lines has first block =
\* offset and last block = offset + blockCount - 1, and every line shown
\* before is shown again unchanged.
C14_AddShowsOneMore ==
    DumpAfterAdd =>
        /\ Len(rendered) = Len(LinesOf(prev.before)) + 1
        /\ \E k \in 1 .. Len(rendered) :
              /\ rendered[k].first = prev.arg.offset
              /\ rendered[k].last = prev.arg.offset + prev.arg.blocks - 1
        /\ \A j \in 1 .. Len(LinesOf(prev.before)) :
              \E k \in 1 .. Len(rendered) : rendered[k] = LinesOf(prev.before)[j]

\* C15: the codec table initialization is only called with block size > 0
\* and block count > 0, and init never divides by a block size of zero,
\* whatever the two device queries returned.
C15_GeometryPositive ==
    /\ ~DividedByZero
    /\ Has(trace, "gpt_device_init") => (blocksize > 0 /\ blocks > 0)

\* the order the identifier's bytes are to be printed in: bytes 0-3
\* reversed, 4-5 reversed, 6-7 reversed, then 8-15 as they are
CanonicalOrder ==
    <<3, 2, 1, 0, HYPHEN, 5, 4, HYPHEN, 7, 6, HYPHEN, 8, 9, HYPHEN,
      10, 11, 12, 13, 14, 15>>

\* C16: the text printed for an identifier is its bytes 0-3 reversed, 4-5
\* reversed, 6-7 reversed and 8-15 in their original order, as hex with
\* hyphens after the groups of 4, 2, 2 and 2 bytes.
C16_GuidTextOrder ==
    \A k \in 1 .. Len(rendered) :
        rendered[k].text = Format(GuidBytes(rendered[k].guid), CanonicalOrder)

\* C17: the exit code is 0 however the invocation ends, and a command line
\* with no arguments, an unknown subcommand, add with fewer than three
\* operands or remove with none prints the usage text only and opens no
\* device.
C17_ExitCodeZero ==
    /\ pc \in {"exit", "crashed"} => ExitStatus = 0
    /\ (pc # "main" /\ Dispatch(argv) = "usage") =>
          /\ op = "usage"
          /\ out = <<"usage:">>
          /\ trace = <<>>
          /\ ~fdOpen
          /\ Returned

\* C19: remove reads no field of the entry it resolved after the codec
\* removal of that entry has returned success.
C19_NoReadAfterRemoval == ~staleRead

\* calls on the device or the table
DeviceCalls ==
    {"ioctl_blocksize", "ioctl_size", "gpt_device_init", "gpt_device_sync",
     "ioctl_rr_part", "gpt_partition_add", "gpt_partition_remove",
     "gpt_device_release"}

\* C20: every codec call and every device ioctl comes after the successful
\* open and before any close; the release is followed at once by the close,
\* which is the last call of the invocation; the descriptor passed to commit
\* and close is the one init opened; and a table handle exists only while
\* the descriptor is open.
C20_CallsInsideOpenClose ==
    /\ \A k \in 1 .. Len(trace) :
          /\ trace[k] \in DeviceCalls \cup {"close"} =>
                /\ \E j \in 1 .. (k - 1) : trace[j] = "open"
                /\ \A j \in 1 .. (k - 1) : trace[j] # "close"
          /\ trace[k] = "close" => k = Len(trace)
          /\ trace[k] = "gpt_device_release" =>
                (k < Len(trace) /\ trace[k + 1] = "close")
    /\ Count(trace, "open") <= 1
    /\ fdOpen = (Has(trace, "open") /\ ~Has(trace, "close"))
    /\ passed \subseteq {DESC}
    /\ fd \in {UNSET, DESC}
    /\ fd = DESC => Has(trace, "open")
    /\ gpt # NULL => (fdOpen /\ fd = DESC)

C20_Witness ==
    /\ Returned
    /\ op = "add"
    /\ Count(trace, "gpt_device_sync") = 2
    /\ EndsReleasedAndClosed
    /\ passed = {DESC}

\* the invocation is over
Ended == pc \in {"exit", "crashed"}

\* C18: once the prompt is out, whatever the input stream holds (a byte, a
\* read error, or end of input where read returns 0), the invocation
\* eventually reaches its end.
C18_PromptedInvocationEnds == (pc = "cgetc") ~> Ended

====
